---- MODULE Spec2Model ----
(***************************************************************************)
(* Model of the shutil package: the glob translator (globParser,           *)
(* parseMain, parseClass), CompileGlob and Glob.Match.                     *)
(*                                                                         *)
(* Strings are sequences of runes (code points, as integers).  The parser  *)
(* cursor is a byte offset, as in the source, so every rune carries its    *)
(* UTF-8 width.  The dialect text the translator emits is handed to a      *)
(* model of the regexp engine (regexp.Compile, Regexp.MatchString), which  *)
(* parses the text with the rules of regexp/syntax for the runes the       *)
(* translator can emit here and matches by structural recursion.           *)
(***************************************************************************)
EXTENDS Integers, Sequences, FiniteSets, TLC

(***************************************************************************)
(* Runes named by the source.                                              *)
(***************************************************************************)
eof == 0
Bang == 33
Dollar == 36
LParen == 40
RParen == 41
Star == 42
Plus == 43
Comma == 44
Minus == 45
Dot == 46
Slash == 47
Zero == 48
Question == 63
LBracket == 91
Backslash == 92
RBracket == 93
Caret == 94
FlagS == 115
LBrace == 123
Bar == 124
RBrace == 125

(***************************************************************************)
(* Bounds of the model.                                                    *)
(***************************************************************************)
MaxLen == 2
MaxData == 2

\* Letters of the input alphabet: 'c', 'e' and the two-byte rune U+00E9.
Letters == {99, 101, 233}

\* Runes that patterns are enumerated over: every rune parseMain and
\* parseClass distinguish, the NUL rune, a separator, and letters.
Sigma ==
    {eof, Backslash, Bang, Dot, LParen, RParen, Caret, Dollar, Bar, Plus,
     LBrace, Comma, RBrace, LBracket, RBracket, Question, Star, Slash, Minus}
    \cup Letters

RECURSIVE SeqsUpTo(_, _)
SeqsUpTo(S, n) ==
    IF n = 0 THEN {<<>>}
    ELSE LET shorter == SeqsUpTo(S, n - 1)
         IN  shorter \cup {Append(s, c) : s \in shorter, c \in S}

(***************************************************************************)
(* UTF-8: the width of a rune, the byte length of a string, and the rune   *)
(* that starts at a byte offset.                                           *)
(***************************************************************************)
RuneLen(r) ==
    IF r < 128 THEN 1 ELSE IF r < 2048 THEN 2 ELSE IF r < 65536 THEN 3 ELSE 4

RECURSIVE ByteLen(_)
ByteLen(s) == IF s = <<>> THEN 0 ELSE RuneLen(Head(s)) + ByteLen(Tail(s))

\* utf8.DecodeRuneInString(s[i:]) for i on a rune boundary: <<rune, width>>,
\* and width 0 at the end of s.
RECURSIVE DecodeRuneInString(_, _)
DecodeRuneInString(s, i) ==
    IF s = <<>> THEN <<eof, 0>>
    ELSE IF i = 0 THEN <<Head(s), RuneLen(Head(s))>>
    ELSE DecodeRuneInString(Tail(s), i - RuneLen(Head(s)))

\* strings.HasPrefix(s[i:], "*/")
HasPrefixStarSlash(s, i) ==
    /\ DecodeRuneInString(s, i) = <<Star, 1>>
    /\ DecodeRuneInString(s, i + 1) = <<Slash, 1>>

(***************************************************************************)
(* globParser: a cursor value [in, index, width] and its methods.  Each    *)
(* method returns the rune it read and the cursor it leaves.               *)
(***************************************************************************)
next(in, index) ==
    LET d == DecodeRuneInString(in, index)
    IN  IF d[2] = 0
        THEN [r |-> eof, index |-> index, width |-> 0]
        ELSE [r |-> d[1], index |-> index + d[2], width |-> d[2]]

back(index, width) == [index |-> index - width, width |-> 0]

peek(in, index) ==
    LET n == next(in, index)
        b == back(n.index, n.width)
    IN  [r |-> n.r, index |-> b.index, width |-> b.width]

EscapedInMain == {Dot, LParen, RParen, Caret, Dollar, Bar, Plus}
EscapedInClass == {Backslash, Minus, Caret, LBracket, RBracket}

(***************************************************************************)
(* The dialect text of the fixed fragments the translator writes.          *)
(***************************************************************************)
TextPrefix == <<Caret, LParen, Question, FlagS, RParen>>
\* Mutant of TextAnyButSlash: '?' written as the engine's any-rune dot.
TextAnyButSlash_Dot == <<Dot>>
TextAnyButSlash == <<LBracket, Caret, Slash, RBracket>>
TextLeadingDirs ==
    <<LParen, Bar, LBracket, Caret, Backslash, Zero, RBracket, Star, Slash,
      RParen>>
\* Mutant of TextEverything: "**" written like a single '*'.
TextEverything_OneComponent ==
    <<LBracket, Caret, Slash, RBracket, Star, Slash, Question>>
TextEverything ==
    <<LBracket, Caret, Backslash, Zero, RBracket, Star, Slash, Question>>
TextOptComponent ==
    <<LParen, LBracket, Caret, Slash, RBracket, Star, Slash, RParen,
      Question>>
\* Mutant of TextStar: '*' written as any run of runes.
TextStar_AnyRune == <<Dot, Star>>
TextStar == <<LBracket, Caret, Slash, RBracket, Star>>

\* The nil error, and the error values CompileGlob can return.
NoError == [type |-> "nil", Pattern |-> <<>>, Index |-> 0, Err |-> "nil"]
GlobError(pattern, index, e) ==
    [type |-> "GlobError", Pattern |-> pattern, Index |-> index, Err |-> e]
SyntaxError(code) ==
    [type |-> "syntax.Error", Pattern |-> <<>>, Index |-> 0, Err |-> code]
ErrUnterminatedClass == "unterminated character class"

\* globParser{in: pattern} after p.out.WriteString(`^(?s)`).
NewParser(pattern) ==
    [in |-> pattern, index |-> 0, width |-> 0, neg |-> FALSE,
     err |-> NoError, out |-> TextPrefix, choiceNest |-> 0]

\* The '*' case of parseMain, entered with the first '*' consumed.
parseStar(q) ==
    IF HasPrefixStarSlash(q.in, q.index)
    THEN [q EXCEPT !.out = q.out \o TextLeadingDirs, !.index = q.index + 2]
    ELSE IF peek(q.in, q.index).r = Star
    THEN LET n == next(q.in, q.index)
         IN  [q EXCEPT !.out = q.out \o TextEverything,
                       !.index = n.index, !.width = n.width]
    ELSE IF peek(q.in, q.index).r = Slash
    THEN LET n == next(q.in, q.index)
         IN  [q EXCEPT !.out = q.out \o TextOptComponent,
                       !.index = n.index, !.width = n.width]
    ELSE [q EXCEPT !.out = q.out \o TextStar, !.width = 0]

\* Mutant of BangIsLiteral: the width of the '!' just read is forgotten.
BangIsLiteral_NoWidth(q) == q.index # 0

\* The test of the '!' case of parseMain, after the '!' was read: a '!' that
\* does not start at byte 0 is a literal.
BangIsLiteral(q) == q.index - q.width # 0

\* Mutant of NotInChoice: ',' and '}' always belong to a choice.
NotInChoice_Never(q) == FALSE

\* The test of the ',' and '}' cases of parseMain: outside every "{...}" the
\* rune is a literal.
NotInChoice(q) == q.choiceNest = 0

\* One call of parseMain: the parser it leaves and the parseFunc it returns.
parseMain(p) ==
    LET n == next(p.in, p.index)
        r == n.r
        q == [p EXCEPT !.index = n.index, !.width = n.width]
        emit(x, text) == [x EXCEPT !.out = x.out \o text]
        main(x) == [p |-> x, state |-> "parseMain"]
    IN  CASE r = eof -> [p |-> q, state |-> "nil"]
          [] r = Backslash ->
                LET n2 == next(q.in, q.index)
                    q2 == [q EXCEPT !.index = n2.index, !.width = n2.width]
                IN  IF n2.r = eof THEN main(emit(q2, <<r>>))
                    ELSE main(emit(q2, <<n2.r>>))
          [] r = Bang ->
                IF BangIsLiteral(q) THEN main(emit(q, <<r>>))
                ELSE main([q EXCEPT !.neg = ~q.neg])
          [] r \in EscapedInMain -> main(emit(q, <<Backslash, r>>))
          [] r = LBrace ->
                main([emit(q, <<LParen>>) EXCEPT !.choiceNest = q.choiceNest + 1])
          [] r = Comma ->
                IF NotInChoice(q) THEN main(emit(q, <<r>>))
                ELSE main(emit(q, <<Bar>>))
          [] r = RBrace ->
                IF NotInChoice(q) THEN main(emit(q, <<r>>))
                ELSE main([emit(q, <<RParen>>) EXCEPT
                               !.choiceNest = q.choiceNest - 1])
          [] r = LBracket -> [p |-> q, state |-> "parseClass"]
          [] r = Question -> main(emit(q, TextAnyButSlash))
          [] r = Star -> main(parseStar(q))
          [] OTHER -> main(emit(q, <<r>>))

\* parseClass up to its loop: the '[' it writes and the offset it records.
parseClassEnter(p) == [p |-> [p EXCEPT !.out = Append(p.out, LBracket)],
                       start |-> p.index]

\* One iteration of the loop of parseClass.
parseClassStep(p, start) ==
    LET n == next(p.in, p.index)
        r == n.r
        q == [p EXCEPT !.index = n.index, !.width = n.width]
        emit(x, text) == [x EXCEPT !.out = x.out \o text]
        loop(x) == [p |-> x, state |-> "parseClassLoop"]
    IN  CASE r = eof ->
                [p |-> [q EXCEPT !.err =
                            GlobError(q.in, q.index, ErrUnterminatedClass)],
                 state |-> "nil"]
          [] r = Backslash ->
                LET n2 == next(q.in, q.index)
                    q2 == [q EXCEPT !.index = n2.index, !.width = n2.width]
                IN  IF n2.r = eof THEN loop(emit(q2, <<r>>))
                    ELSE IF n2.r \in EscapedInClass
                    THEN loop(emit(q2, <<Backslash, n2.r>>))
                    ELSE loop(emit(q2, <<n2.r>>))
          [] r = Bang ->
                IF q.index - start - q.width = 0 THEN loop(emit(q, <<Caret>>))
                ELSE loop(emit(q, <<r>>))
          [] r = LBracket -> loop(emit(q, <<Backslash, r>>))
          [] r = RBracket -> [p |-> emit(q, <<r>>), state |-> "parseMain"]
          [] OTHER -> loop(emit(q, <<r>>))

(***************************************************************************)
(* The regexp engine behind regexp.Compile: the parser of regexp/syntax    *)
(* with the Perl flags, for the runes the translator can emit from Sigma.  *)
(* A regexp is a tree of nodes; "lparen" and "vbar" are the parser's       *)
(* pseudo-operators, which live only on its stack.                         *)
(***************************************************************************)
Node(op, r, neg, rs, subs) ==
    [op |-> op, r |-> r, neg |-> neg, rs |-> rs, subs |-> subs]
Leaf(op) == Node(op, 0, FALSE, <<>>, <<>>)
Literal(r) == Node("lit", r, FALSE, <<>>, <<>>)
CharClass(neg, rs) == Node("class", 0, neg, rs, <<>>)
Unary(op, sub) == Node(op, 0, FALSE, <<>>, <<sub>>)
Pseudo == {"lparen", "vbar"}

IsAlnum(c) == c \in 48..57 \/ c \in 65..90 \/ c \in 97..122

\* parseEscape, called at the backslash text[i]: the rune it denotes and the
\* position after it.  A backslash before a letter of Letters is an invalid
\* escape; the other letters and the digits 1-9 never follow a backslash in
\* the text the translator emits from Sigma.
RECURSIVE SkipZeros(_, _, _)
SkipZeros(text, j, n) ==
    IF n > 0 /\ j <= Len(text) /\ text[j] = Zero
    THEN SkipZeros(text, j + 1, n - 1) ELSE j
parseEscape(text, i) ==
    IF i + 1 > Len(text)
    THEN [err |-> "trailing backslash at end of expression", r |-> 0, i |-> i]
    ELSE LET c == text[i + 1]
         IN  IF c < 128 /\ ~IsAlnum(c)
             THEN [err |-> "", r |-> c, i |-> i + 2]
             ELSE IF c = Zero
             THEN [err |-> "", r |-> 0, i |-> SkipZeros(text, i + 2, 2)]
             ELSE [err |-> "invalid escape sequence", r |-> 0, i |-> i]

\* parseClassChar: one rune of a class, escaped or not.
parseClassChar(text, j) ==
    IF j > Len(text)
    THEN [err |-> "missing closing ]", r |-> 0, i |-> j]
    ELSE IF text[j] = Backslash THEN parseEscape(text, j)
    ELSE [err |-> "", r |-> text[j], i |-> j + 1]

\* The loop of the engine's parseClass, from position j.
RECURSIVE parseClassItems(_, _, _, _)
parseClassItems(text, j, first, rs) ==
    IF j <= Len(text) /\ text[j] = RBracket /\ ~first
    THEN [err |-> "", rs |-> rs, i |-> j + 1]
    ELSE LET lo == parseClassChar(text, j)
         IN  IF lo.err # "" THEN [err |-> lo.err, rs |-> rs, i |-> j]
             ELSE IF /\ lo.i + 1 <= Len(text)
                     /\ text[lo.i] = Minus
                     /\ text[lo.i + 1] # RBracket
             THEN LET hi == parseClassChar(text, lo.i + 1)
                  IN  IF hi.err # "" THEN [err |-> hi.err, rs |-> rs, i |-> j]
                      ELSE IF hi.r < lo.r
                      THEN [err |-> "invalid character class range",
                            rs |-> rs, i |-> j]
                      ELSE parseClassItems(text, hi.i, FALSE,
                                           Append(rs, <<lo.r, hi.r>>))
             ELSE parseClassItems(text, lo.i, FALSE,
                                  Append(rs, <<lo.r, lo.r>>))

\* The engine's parseClass, called at the '[' text[i].
reParseClass(text, i) ==
    LET neg == i + 1 <= Len(text) /\ text[i + 1] = Caret
        items == parseClassItems(text, IF neg THEN i + 2 ELSE i + 1, TRUE, <<>>)
    IN  [err |-> items.err, re |-> CharClass(neg, items.rs), i |-> items.i]

\* parsePerlFlags, after "(?": the flags up to ')'.  Of the flag letters only
\* 's' is a rune of the model, and no rune of it opens a group with ':'.
RECURSIVE parsePerlFlags(_, _, _, _, _)
parsePerlFlags(text, j, sign, sawFlag, dotNL) ==
    IF j > Len(text) THEN [err |-> "missing closing )", i |-> j, dotNL |-> dotNL]
    ELSE CASE text[j] = FlagS ->
                parsePerlFlags(text, j + 1, sign, TRUE, sign > 0)
           [] text[j] = Minus /\ sign > 0 ->
                parsePerlFlags(text, j + 1, -1, FALSE, dotNL)
           [] text[j] = RParen /\ (sign > 0 \/ sawFlag) ->
                [err |-> "", i |-> j + 1, dotNL |-> dotNL]
           [] OTHER ->
                [err |-> "invalid or unsupported Perl syntax", i |-> j,
                 dotNL |-> dotNL]

\* The index of the topmost pseudo-operator of the stack, 0 when it has none.
RECURSIVE TopPseudo(_, _)
TopPseudo(stack, k) ==
    IF k = 0 THEN 0
    ELSE IF stack[k].op \in Pseudo THEN k ELSE TopPseudo(stack, k - 1)

collapse(subs, op) ==
    IF Len(subs) = 1 THEN subs[1] ELSE Node(op, 0, FALSE, <<>>, subs)

\* concat and alternate: replace what lies above the topmost pseudo-operator.
reConcat(stack) ==
    LET k == TopPseudo(stack, Len(stack))
        subs == SubSeq(stack, k + 1, Len(stack))
    IN  Append(SubSeq(stack, 1, k),
               IF subs = <<>> THEN Leaf("empty") ELSE collapse(subs, "cat"))
reAlternate(stack) ==
    LET k == TopPseudo(stack, Len(stack))
        subs == SubSeq(stack, k + 1, Len(stack))
    IN  Append(SubSeq(stack, 1, k),
               IF subs = <<>> THEN Leaf("nomatch") ELSE collapse(subs, "alt"))

\* swapVerticalBar: a vertical bar right below the top moves to the top.
CanSwapVerticalBar(stack) ==
    Len(stack) >= 2 /\ stack[Len(stack) - 1].op = "vbar"
swapVerticalBar(stack) ==
    LET n == Len(stack)
    IN  SubSeq(stack, 1, n - 2) \o <<stack[n], stack[n - 1]>>

\* What parseRightParen and the end of Parse do first: concat, drop a swapped
\* vertical bar, alternate.
closeAlternation(stack) ==
    LET c == reConcat(stack)
    IN  reAlternate(IF CanSwapVerticalBar(c)
                    THEN SubSeq(swapVerticalBar(c), 1, Len(c) - 1) ELSE c)

parseVerticalBar(stack) ==
    LET c == reConcat(stack)
    IN  IF CanSwapVerticalBar(c) THEN swapVerticalBar(c)
        ELSE Append(c, Leaf("vbar"))

RepeatOp(c) ==
    IF c = Star THEN "star" ELSE IF c = Plus THEN "plus" ELSE "quest"

\* The main loop of syntax.Parse from position i, and its end.
RECURSIVE reParseLoop(_, _, _, _, _)
reParseLoop(text, i, stack, lastRepeat, dotNL) ==
    IF i > Len(text)
    THEN LET s == closeAlternation(stack)
         IN  IF Len(s) # 1 THEN [err |-> "missing closing )", re |-> Leaf("nomatch")]
             ELSE [err |-> "", re |-> s[1]]
    ELSE LET c == text[i]
             n == Len(stack)
             fail(e) == [err |-> e, re |-> Leaf("nomatch")]
             push(x) == reParseLoop(text, i + 1, Append(stack, x), FALSE, dotNL)
         IN  CASE c = LParen ->
                    IF i + 1 <= Len(text) /\ text[i + 1] = Question
                    THEN LET f == parsePerlFlags(text, i + 2, 1, FALSE, dotNL)
                         IN  IF f.err # "" THEN fail(f.err)
                             ELSE reParseLoop(text, f.i, stack, FALSE, f.dotNL)
                    ELSE push(Leaf("lparen"))
               [] c = Bar ->
                    reParseLoop(text, i + 1, parseVerticalBar(stack), FALSE, dotNL)
               [] c = RParen ->
                    LET s == closeAlternation(stack)
                        m == Len(s)
                    IN  IF m < 2 \/ s[m - 1].op # "lparen"
                        THEN fail("unexpected )")
                        ELSE reParseLoop(text, i + 1,
                                 Append(SubSeq(s, 1, m - 2), Unary("cap", s[m])),
                                 FALSE, dotNL)
               [] c = Caret -> push(Leaf("bot"))
               [] c = Dollar -> push(Leaf("eot"))
               [] c = Dot -> push(Leaf(IF dotNL THEN "any" ELSE "anynotnl"))
               [] c = LBracket ->
                    LET k == reParseClass(text, i)
                    IN  IF k.err # "" THEN fail(k.err)
                        ELSE reParseLoop(text, k.i, Append(stack, k.re), FALSE, dotNL)
               [] c \in {Star, Plus, Question} ->
                    LET lazy == i + 1 <= Len(text) /\ text[i + 1] = Question
                    IN  IF lastRepeat
                        THEN fail("invalid nested repetition operator")
                        ELSE IF n = 0 \/ stack[n].op \in Pseudo
                        THEN fail("missing argument to repetition operator")
                        ELSE reParseLoop(text, IF lazy THEN i + 2 ELSE i + 1,
                                 Append(SubSeq(stack, 1, n - 1),
                                        Unary(RepeatOp(c), stack[n])),
                                 TRUE, dotNL)
               [] c = Backslash ->
                    LET e == parseEscape(text, i)
                    IN  IF e.err # "" THEN fail(e.err)
                        ELSE reParseLoop(text, e.i, Append(stack, Literal(e.r)),
                                         FALSE, dotNL)
               [] OTHER -> push(Literal(c))

\* regexp.Compile(text): the error ("" for none) and the regexp.
Compile(text) == reParseLoop(text, 1, <<>>, FALSE, FALSE)

(***************************************************************************)
(* Matching.  Ends(re, s, i) is the set of positions where a match of re   *)
(* that starts at position i of s (0-based, between runes) can end.        *)
(***************************************************************************)
InRanges(rs, c) == \E k \in 1..Len(rs) : rs[k][1] <= c /\ c <= rs[k][2]

RECURSIVE Ends(_, _, _)
RECURSIVE EndsFrom(_, _, _)
RECURSIVE EndsCat(_, _, _, _)
RECURSIVE EndsStar(_, _, _, _)
EndsFrom(re, s, from) == UNION {Ends(re, s, i) : i \in from}
EndsCat(subs, k, s, from) ==
    IF k > Len(subs) \/ from = {} THEN from
    ELSE EndsCat(subs, k + 1, s, EndsFrom(subs[k], s, from))
EndsStar(sub, s, seen, frontier) ==
    IF frontier = {} THEN seen
    ELSE LET more == EndsFrom(sub, s, frontier) \ seen
         IN  EndsStar(sub, s, seen \cup more, more)
Ends(re, s, i) ==
    CASE re.op = "lit" -> IF i < Len(s) /\ s[i + 1] = re.r THEN {i + 1} ELSE {}
          [] re.op = "any" -> IF i < Len(s) THEN {i + 1} ELSE {}
          [] re.op = "anynotnl" ->
                IF i < Len(s) /\ s[i + 1] # 10 THEN {i + 1} ELSE {}
          [] re.op = "class" ->
                IF i < Len(s) /\ (InRanges(re.rs, s[i + 1]) # re.neg)
                THEN {i + 1} ELSE {}
          [] re.op = "bot" -> IF i = 0 THEN {i} ELSE {}
          [] re.op = "eot" -> IF i = Len(s) THEN {i} ELSE {}
          [] re.op = "empty" -> {i}
          [] re.op = "nomatch" -> {}
          [] re.op = "cap" -> Ends(re.subs[1], s, i)
          [] re.op = "cat" -> EndsCat(re.subs, 1, s, {i})
          [] re.op = "alt" ->
                UNION {Ends(re.subs[k], s, i) : k \in 1..Len(re.subs)}
          [] re.op = "star" -> EndsStar(re.subs[1], s, {i}, {i})
          [] re.op = "plus" ->
                LET once == Ends(re.subs[1], s, i)
                IN  EndsStar(re.subs[1], s, once, once)
          [] re.op = "quest" -> {i} \cup Ends(re.subs[1], s, i)

\* Regexp.MatchString: a match anywhere in s.
MatchString(re, s) == \E i \in 0..Len(s) : Ends(re, s, i) # {}

(***************************************************************************)
(* CompileGlob after its parse loop, and Glob.Match.                       *)
(***************************************************************************)
NilGlob ==
    [ok |-> FALSE, pattern |-> <<>>, re |-> Leaf("nomatch"), negated |-> FALSE]
NoResult == [glob |-> NilGlob, err |-> NoError]

\* The parser after the loop: '$' is written unless the parse failed.
compileOut(p) ==
    IF p.err # NoError THEN p ELSE [p EXCEPT !.out = Append(p.out, Dollar)]

\* What CompileGlob returns for the parser the loop left.
compileResult(p) ==
    IF p.err # NoError THEN [glob |-> NilGlob, err |-> p.err]
    ELSE LET c == Compile(compileOut(p).out)
         IN  IF c.err # ""
             THEN [glob |-> NilGlob, err |-> SyntaxError(c.err)]
             ELSE [glob |-> [ok |-> TRUE, pattern |-> p.in, re |-> c.re,
                             negated |-> p.neg],
                   err |-> NoError]

\* The parse loop of CompileGlob, run to its end from a parser, a parseFunc
\* and parseClass's local.
RECURSIVE parseLoop(_, _, _)
parseLoop(q, st, st0) ==
    CASE st = "parseMain" ->
            LET s == parseMain(q) IN parseLoop(s.p, s.state, st0)
      [] st = "parseClass" ->
            LET s == parseClassEnter(q) IN parseLoop(s.p, "parseClassLoop", s.start)
      [] st = "parseClassLoop" ->
            LET s == parseClassStep(q, st0) IN parseLoop(s.p, s.state, st0)
      [] OTHER -> q

\* CompileGlob(pattern) as a function of the pattern.
CompileGlob(pattern) == compileResult(parseLoop(NewParser(pattern), "parseMain", 0))

\* Mutant of GlobMatch: the negation flag is applied to the result.
GlobMatch_Negating(g, s) == MatchString(g.re, s) # g.negated

\* Glob.Match
GlobMatch(g, s) == MatchString(g.re, s)

\* Mutant of GlobMatchInfo: the name followed by "/" is tried for every entry.
GlobMatchInfo_AnyEntry(g, name, dir) ==
    GlobMatch(g, name) \/ GlobMatch(g, Append(name, Slash))

\* Glob.MatchInfo, for an os.FileInfo with this Name() and IsDir().
GlobMatchInfo(g, name, dir) ==
    LET match == GlobMatch(g, name)
    IN  IF dir THEN match \/ GlobMatch(g, Append(name, Slash)) ELSE match

\* Glob.MatchName, for a Namer with this Name().
GlobMatchName(g, name) == GlobMatch(g, name)

(***************************************************************************)
(* The inputs: patterns and the strings matched against them.              *)
(***************************************************************************)
\* "x/*/y" and "dir/**" of the tests with one-letter names, and patterns with
\* braces and classes longer than MaxLen.
NamedPatterns ==
    {<<99, Slash, Star, Slash, 101>>,
     <<99, Slash, Star>>,
     <<99, Slash, Star, Star>>,
     <<Star, Star, Slash, 99>>,
     <<99, Star, 101>>,
     <<Star, Dot, 101>>,
     <<LBrace, Comma, Bang, RBrace>>,
     <<LBrace, 99, Comma, 101, RBrace>>,
     <<LBrace, 99>>,
     <<LBracket, 99, Minus, 101, RBracket>>,
     <<LBracket, Bang, 99, RBracket>>,
     <<LBracket, 99, 233>>,
     <<LBracket, eof, 99>>,
     <<99, eof, 101>>,
     <<Bang, Bang, 99>>,
     <<Bang, LBrace, 99, Comma, 101, RBrace>>,
     <<Bang, LBracket, Bang, 99, RBracket>>,
     <<Bang, 99, Slash, Star, Star>>,
     <<Bang, Star, Slash>>,
     <<LBracket, Caret, 99, RBracket>>,
     <<LBracket, Bang, Caret, 99, RBracket>>,
     <<LBracket, Bang, 99, Minus, 101, RBracket>>,
     <<LBracket, 99, Bang, RBracket>>,
     <<LBracket, Bang, 99, Bang, RBracket>>,
     <<LBracket, RBracket, RBracket>>,
     <<LBracket, Bang, RBracket, RBracket>>,
     <<LBrace, 99, Comma, 101, Comma, 233, RBrace>>,
     <<LBrace, 99, LBracket, Comma, RBrace, RBracket, Comma, 101, RBrace>>,
     <<Star, Slash>>}

Patterns == SeqsUpTo(Sigma, MaxLen) \cup NamedPatterns

DataSigma == {99, Slash, eof, Dollar}
NamedData ==
    {<<99, Slash, 101>>, <<99, Slash, 99, Slash, 101>>,
     <<99, Slash, 99, Slash, 99, Slash, 101>>, <<99, Slash, Slash, 101>>,
     <<99, 99, 101>>, <<99, Slash, 101, 101>>, <<99, 101>>, <<101>>,
     <<99, Dot, 101>>, <<Dot, 101>>, <<Slash, 99>>, <<99, Slash, 99>>,
     <<101, Slash, 99, Slash, 99>>, <<233>>, <<Bang>>, <<Bang, 99>>,
     <<99, Slash, eof>>, <<99, Slash, 101, eof>>}
Candidates(pattern) ==
    SeqsUpTo(DataSigma, MaxData) \cup {<<c>> : c \in Sigma} \cup NamedData
    \cup {pattern}

\* Names of the entries handed to MatchInfo and MatchName.
Names(pattern) ==
    SeqsUpTo({99, Slash}, 2) \cup {<<99, 101>>, <<100, 105, 114>>, pattern}

(***************************************************************************)
(* Substitute.  A string is the sequence of its bytes; i, start and the     *)
(* other offsets count bytes from 0 as the code does.                      *)
(***************************************************************************)
Colon == 58

At(s, k) == s[k + 1]
Slice(s, a, b) == SubSeq(s, a + 1, b)
HasPrefixRef(s, i) ==
    i + 2 <= Len(s) /\ At(s, i) = Dollar /\ At(s, i + 1) = LBrace

\* strings.IndexAny(s[from:], chars) and strings.IndexByte: -1 for none.
IndexAny(s, from, chars) ==
    LET hits == {k \in from..(Len(s) - 1) : At(s, k) \in chars}
    IN  IF hits = {} THEN -1
        ELSE (CHOOSE k \in hits : \A h \in hits : k <= h) - from

NoErr == [kind |-> "nil", text |-> <<>>]
SubstError(kind, text) == [kind |-> kind, text |-> text]

\* SimpleVariableMap.Get
Get(vals, name) ==
    IF name \in DOMAIN vals THEN [value |-> vals[name], present |-> TRUE]
    ELSE [value |-> <<>>, present |-> FALSE]

\* cansubst: the map's CanSubstitute when it has one, else always true.
cansubst(env, name) == IF env.can THEN name \notin env.deny ELSE TRUE

\* The scan of the '/' form for the slash that ends the regexp: j and count
\* when its loop ends.
RECURSIVE ScanSlashes(_, _, _)
ScanSlashes(s, j, count) ==
    IF j < Len(s) /\ count < 3
    THEN IF At(s, j) = Backslash THEN ScanSlashes(s, j + 2, count)
         ELSE IF At(s, j) = Slash THEN ScanSlashes(s, j + 1, count + 1)
         ELSE ScanSlashes(s, j + 1, count)
    ELSE [j |-> j, count |-> count]

\* The reference that starts at subsStart, up to the test of cansubst: how
\* the parse ends ("ref", "break", "error" or "panic"), and for "ref" the
\* name, the text after it (def, when hasDef) and the values of i and delim.
parseRef(s, subsStart) ==
    LET i == subsStart + 2
        delim == IndexAny(s, i, {Colon, Slash, RBrace})
        break == [kind |-> "break"]
    IN  IF delim = -1 THEN break
        ELSE
        LET name == Slice(s, i, i + delim)
            c == At(s, i + delim)
        IN  CASE c = Colon ->
                    LET i2 == i + delim + 1
                        d2 == IndexAny(s, i2, {RBrace})
                    IN  IF d2 = -1 THEN break
                        ELSE [kind |-> "ref", name |-> name, hasDef |-> TRUE,
                              def |-> Slice(s, i2, i2 + d2),
                              i |-> i2, delim |-> d2]
              [] c = Slash ->
                    LET i2 == i + delim
                        sc == ScanSlashes(s, i2, 1)
                    IN  IF sc.count # 3
                        THEN IF sc.j > Len(s) THEN [kind |-> "panic"]
                             ELSE [kind |-> "error",
                                   err |-> SubstError(
                                       "malformed regexp substitution",
                                       Slice(s, subsStart, sc.j))]
                        ELSE LET d == IndexAny(s, sc.j, {RBrace})
                             IN  IF d = -1 THEN break
                                 ELSE [kind |-> "ref", name |-> name,
                                       hasDef |-> TRUE,
                                       def |-> Slice(s, i2, sc.j + d),
                                       i |-> sc.j + d, delim |-> 0]
              [] OTHER ->
                    [kind |-> "ref", name |-> name, hasDef |-> FALSE,
                     def |-> <<>>, i |-> i, delim |-> delim]

\* strings.FieldsFunc(def, f): the closure's i stays 0, so f is true of every
\* '/' and the fields are the non-empty runs between the slashes.
RECURSIVE FieldsSlash(_, _, _)
FieldsSlash(def, k, field) ==
    IF k > Len(def)
    THEN IF field = <<>> THEN <<>> ELSE <<field>>
    ELSE IF def[k] = Slash
    THEN (IF field = <<>> THEN <<>> ELSE <<field>>)
         \o FieldsSlash(def, k + 1, <<>>)
    ELSE FieldsSlash(def, k + 1, Append(field, def[k]))

\* A regexp that is a string of literals, and that string.
IsLiteralRe(re) ==
    \/ re.op = "lit"
    \/ re.op = "cat" /\ \A k \in 1..Len(re.subs) : re.subs[k].op = "lit"
LiteralText(re) ==
    IF re.op = "lit" THEN <<re.r>>
    ELSE [k \in 1..Len(re.subs) |-> re.subs[k].r]

\* A replacement without '$' and without '\' is a template that expands to
\* itself.
IsLiteralTemplate(repl) == \A k \in 1..Len(repl) : repl[k] \notin {Dollar, Backslash}

\* Regexp.ReplaceAllString for a literal regexp and a literal template: the
\* matches taken leftmost, without overlap.
RECURSIVE ReplaceAllLiteral(_, _, _)
ReplaceAllLiteral(value, lit, repl) ==
    IF Len(value) < Len(lit) THEN value
    ELSE IF SubSeq(value, 1, Len(lit)) = lit
    THEN repl \o ReplaceAllLiteral(SubSeq(value, Len(lit) + 1, Len(value)), lit, repl)
    ELSE <<value[1]>> \o ReplaceAllLiteral(Tail(value), lit, repl)

\* The value a reference with a def expands to, from what Get returned: the
\* switch on deref[0].  A regexp with operators, or a template with '$' or
\* '\', is left to the engine: kind "regexp" stands for its result.
expandDef(s, subsStart, r, got) ==
    LET deref == IF r.def = <<>> THEN <<eof>> ELSE r.def
        ok(v) == [kind |-> "value", value |-> v]
        fail(e) == [kind |-> "error", err |-> e]
    IN  CASE deref[1] = Minus ->
                ok(IF ~got.present THEN Tail(deref) ELSE got.value)
          [] deref[1] = Plus ->
                ok(IF got.present THEN Tail(deref) ELSE got.value)
          [] deref[1] = Slash ->
                LET parts == FieldsSlash(r.def, 1, <<>>)
                IN  IF Len(parts) # 2
                    THEN fail(SubstError("malformed regexp substitution", r.def))
                    ELSE LET c == Compile(parts[1])
                         IN  IF c.err # "" THEN fail(SubstError(c.err, parts[1]))
                             ELSE IF IsLiteralRe(c.re) /\ IsLiteralTemplate(parts[2])
                             THEN ok(ReplaceAllLiteral(got.value,
                                                       LiteralText(c.re), parts[2]))
                             ELSE [kind |-> "regexp"]
          [] OTHER ->
                fail(SubstError("malformed variable substitution",
                                Slice(s, subsStart, r.i + r.delim + 1)))

\* One iteration of the loop of Substitute, "i++" included, on the frame f of
\* the call: pc is "loop" while the loop runs, "break" when it was left,
\* "returned" after a return, "panic" after a run-time panic and "regexp"
\* where the engine takes over.
substStep(f, env) ==
    IF ~HasPrefixRef(f.s, f.i) THEN [f EXCEPT !.i = f.i + 1]
    ELSE
    LET r == parseRef(f.s, f.i)
    IN  CASE r.kind = "break" -> [f EXCEPT !.pc = "break"]
          [] r.kind = "panic" -> [f EXCEPT !.pc = "panic"]
          [] r.kind = "error" ->
                [f EXCEPT !.pc = "returned", !.out = <<>>, !.err = r.err]
          [] OTHER ->
                IF ~cansubst(env, r.name)
                THEN [f EXCEPT !.i = r.i + r.delim + 1 + 1]
                ELSE
                LET out1 == f.out \o Slice(f.s, f.start, f.i)
                    got == Get(env.vals, r.name)
                    g == [f EXCEPT !.gets = Append(f.gets, r.name)]
                    e == IF ~r.hasDef
                         THEN IF ~got.present
                              THEN [kind |-> "error",
                                    err |-> SubstError("undefined variable", r.name)]
                              ELSE [kind |-> "value", value |-> got.value]
                         ELSE expandDef(f.s, f.i, r, got)
                IN  CASE e.kind = "error" ->
                            [g EXCEPT !.pc = "returned", !.out = <<>>,
                                      !.err = e.err]
                      [] e.kind = "regexp" -> [g EXCEPT !.pc = "regexp"]
                      [] OTHER ->
                            [g EXCEPT !.out = out1 \o e.value,
                                      !.start = r.i + r.delim + 1,
                                      !.i = r.i + r.delim + 1 + 1]

\* The end of Substitute: the rest of s is written and the string returned.
substReturn(f) ==
    [f EXCEPT !.pc = "returned", !.out = f.out \o Slice(f.s, f.start, Len(f.s))]

NewFrame(s) ==
    [s |-> s, i |-> 0, start |-> 0, out |-> <<>>, err |-> NoErr,
     gets |-> <<>>, pc |-> "loop"]
IdleFrame == [NewFrame(<<>>) EXCEPT !.pc = "idle"]

\* Substitute(s, vars) run to its end.
RECURSIVE substLoop(_, _)
substLoop(f, env) ==
    IF f.pc = "loop" /\ f.i < Len(f.s) THEN substLoop(substStep(f, env), env)
    ELSE IF f.pc \in {"loop", "break"} THEN substReturn(f)
    ELSE f
Substitute(s, env) == substLoop(NewFrame(s), env)

(***************************************************************************)
(* Quote.  An argument is the sequence of its bytes; "range arg" decodes   *)
(* it rune by rune and WriteRune encodes the rune again.                   *)
(***************************************************************************)
Apostrophe == 39
Space == 32
Tilde == 126
RuneError == 65533

\* The runes the shell gives a meaning to: needsQuote(i, ch).
QuotedRunes ==
    {96, Dollar, 38, Star, LParen, RParen, LBrace, LBracket, Backslash, Bar,
     Space, 59, Apostrophe, 34, 60, 62, Question}
needsQuote(i, ch) == (i = 0 /\ ch = Tilde) \/ ch \in QuotedRunes

\* The rune "range" reads at byte k (from 1) of arg and its width: a byte
\* that starts no valid encoding reads as RuneError of width 1.  The bytes
\* of QuoteSigma start encodings of one or two bytes only.
RangeRune(arg, k) ==
    LET b == arg[k]
    IN  IF b < 128 THEN [r |-> b, w |-> 1]
        ELSE IF /\ b \in 194..223
                /\ k + 1 <= Len(arg)
                /\ arg[k + 1] \in 128..191
        THEN [r |-> (b - 192) * 64 + (arg[k + 1] - 128), w |-> 2]
        ELSE [r |-> RuneError, w |-> 1]

\* strings.Builder.WriteRune: the UTF-8 encoding of r.
WriteRune(r) ==
    IF r < 128 THEN <<r>>
    ELSE IF r < 2048 THEN <<192 + (r \div 64), 128 + (r % 64)>>
    ELSE <<224 + (r \div 4096), 128 + ((r \div 64) % 64), 128 + (r % 64)>>

\* The first loop over arg, from byte k: sawApostrophe and needQuoting.
RECURSIVE scanArg(_, _, _)
scanArg(arg, k, needQuoting) ==
    IF k > Len(arg)
    THEN [sawApostrophe |-> FALSE, needQuoting |-> needQuoting]
    ELSE LET d == RangeRune(arg, k)
         IN  IF d.r = Apostrophe
             THEN [sawApostrophe |-> TRUE, needQuoting |-> needQuoting]
             ELSE scanArg(arg, k + d.w, needQuoting \/ needsQuote(k - 1, d.r))

\* The second loop over arg, from byte k: every rune, after a backslash when
\* it needs one.
RECURSIVE escapeArg(_, _)
escapeArg(arg, k) ==
    IF k > Len(arg) THEN <<>>
    ELSE LET d == RangeRune(arg, k)
         IN  (IF needsQuote(k - 1, d.r) THEN <<Backslash>> ELSE <<>>)
             \o WriteRune(d.r) \o escapeArg(arg, k + d.w)

\* What one iteration of the loop of Quote writes for arg.
quoteArg(arg, first) ==
    LET sc == scanArg(arg, 1, FALSE)
    IN  (IF first THEN <<>> ELSE <<Space>>)
        \o (IF sc.sawApostrophe THEN escapeArg(arg, 1)
            ELSE IF sc.needQuoting
            THEN <<Apostrophe>> \o arg \o <<Apostrophe>>
            ELSE arg)

IdleQuote == [argv |-> <<>>, k |-> 0, first |-> TRUE, b |-> <<>>, pc |-> "idle"]

\* Quote(argv) run to its end.
RECURSIVE quoteLoop(_, _, _)
quoteLoop(argv, k, b) ==
    IF k > Len(argv) THEN b
    ELSE quoteLoop(argv, k + 1, b \o quoteArg(argv[k], k = 1))
Quote(argv) == quoteLoop(argv, 1, <<>>)

\* The inputs of Substitute: every string of up to MaxSubstLen bytes of
\* SubstSigma, and the strings of TestSubstitute with the variable a (whose
\* value is "value") for "variable" and u for "undefined".
MaxSubstLen == 3
SubstSigma ==
    {Dollar, LBrace, RBrace, Colon, Slash, Minus, Plus, Backslash, 97, 117}
NamedInputs ==
    {<<36, 123, 97, 125>>, <<36, 123, 117, 125>>,
     <<36, 123, 97, 125, 36, 123, 97, 125>>,
     <<36, 123, 97, 125, 32, 36, 123, 97, 125>>,
     <<36, 123, 97, 125, 36, 123, 117, 125>>, <<99, 36, 123, 97, 125, 101>>,
     <<36, 123, 117, 58, 45, 100, 101, 125>>,
     <<36, 123, 97, 58, 45, 100, 101, 125>>,
     <<36, 123, 97, 58, 43, 100, 101, 125>>,
     <<36, 123, 117, 58, 43, 100, 101, 125>>, <<36, 123, 97, 58, 125>>,
     <<36, 123, 97, 58, 120, 125>>, <<36, 123, 117, 58, 120, 125>>,
     <<36, 123, 97, 58, 47, 117, 101, 47, 111, 114, 125>>,
     <<36, 123, 97, 58, 47, 98, 125>>,
     <<36, 123, 97, 47, 117, 101, 47, 111, 114, 47, 125>>,
     <<36, 123, 97, 47, 117, 101, 47, 111, 114, 125>>,
     <<36, 123, 97, 47, 120, 125>>, <<36, 123, 97, 47, 125>>,
     <<36, 123, 97, 47, 117>>, <<36, 123, 97, 47, 92>>, <<36, 123, 47, 92>>,
     <<36, 123, 97, 47, 117, 101, 47, 111, 114>>, <<36, 123, 97>>,
     <<36, 123, 97, 58, 45>>, <<36, 123, 97, 125, 32, 36, 123, 97>>,
     <<36, 123, 97, 47, 117, 43, 47, 111, 125>>,
     <<36, 123, 97, 47, 40, 47, 111, 125>>,
     <<36, 123, 97, 58, 45, 100, 125, 36, 123, 97, 125>>,
     <<36, 123, 117, 125, 32, 36, 123, 97, 47>>}
Inputs == SeqsUpTo(SubstSigma, MaxSubstLen) \cup NamedInputs
Vals == <<97>> :> <<118, 97, 108, 117, 101>>
Envs ==
    {[vals |-> Vals, can |-> FALSE, deny |-> {}],
     [vals |-> Vals, can |-> TRUE, deny |-> {<<97>>}],
     [vals |-> Vals, can |-> TRUE, deny |-> {<<117>>}]}
IdleEnv == [vals |-> Vals, can |-> FALSE, deny |-> {}]

\* The arguments of Quote: a first argument of up to MaxArgLen bytes of
\* QuoteSigma, alone or before one of NamedWords, and the argument lists of
\* TestQuote.
MaxArgLen == 2
QuoteSigma == {99, Apostrophe, Space, Tilde, 195, 169, 255}
Words == SeqsUpTo(QuoteSigma, MaxArgLen)
NamedWords == {<<>>, <<99>>, <<99, Space, 99>>, <<Tilde, Apostrophe>>, <<255, Apostrophe>>}
NamedArgvs ==
    {<<<<114, 109>>, <<97, 98, 99, 32, 100, 101, 102>>, <<104, 105, 106>>>>,
     <<<<97>>, <<98, 32, 99>>, <<100>>>>,
     <<<<105, 116, 39, 115>>>>,
     <<<<126, 120>>, <<120, 126>>>>,
     <<<<97, 39, 98, 32, 99>>>>}
Argvs ==
    {<<>>} \cup {<<w>> : w \in Words}
    \cup {<<w, x>> : w \in Words, x \in NamedWords} \cup NamedArgvs

(***************************************************************************)
(* The state machine: one CompileGlob call, then one Match, MatchInfo or   *)
(* MatchName call on the Glob it returned.                                 *)
(***************************************************************************)
VARIABLES
    p,        \* the globParser of the call
    state,    \* the parseFunc to call next ("nil": the loop is over)
    start,    \* parseClass's local start
    result,   \* what CompileGlob returned
    data,     \* the argument of Match, or the Name() of the entry
    matched,  \* what Match, MatchInfo or MatchName returned
    isDir,    \* the IsDir() of the entry handed to MatchInfo
    sub,      \* the frame of the Substitute call: s, i, start, out, ...
    env,      \* the vars argument of Substitute
    qt        \* the frame of the Quote call: argv, the builder b, ...

vars == <<p, state, start, result, data, matched, isDir, sub, env, qt>>

Init ==
    /\ \E pattern \in Patterns : p = NewParser(pattern)
    /\ state = "parseMain"
    /\ start = 0
    /\ result = NoResult
    /\ data = <<>>
    /\ matched = FALSE
    /\ isDir = FALSE
    /\ sub = IdleFrame
    /\ env = IdleEnv
    /\ qt = IdleQuote

ParseMain ==
    /\ state = "parseMain"
    /\ LET s == parseMain(p) IN p' = s.p /\ state' = s.state
    /\ UNCHANGED <<start, result, data, matched, isDir, sub, env, qt>>

ParseClassEnter ==
    /\ state = "parseClass"
    /\ LET s == parseClassEnter(p) IN p' = s.p /\ start' = s.start
    /\ state' = "parseClassLoop"
    /\ UNCHANGED <<result, data, matched, isDir, sub, env, qt>>

ParseClassStep ==
    /\ state = "parseClassLoop"
    /\ LET s == parseClassStep(p, start) IN p' = s.p /\ state' = s.state
    /\ UNCHANGED <<start, result, data, matched, isDir, sub, env, qt>>

CompileGlobReturn ==
    /\ state = "nil"
    /\ p' = compileOut(p)
    /\ result' = compileResult(p)
    /\ state' = "done"
    /\ UNCHANGED <<start, data, matched, isDir, sub, env, qt>>

Match ==
    /\ state = "done"
    /\ result.glob.ok
    /\ \E s \in Candidates(p.in) :
          /\ data' = s
          /\ matched' = GlobMatch(result.glob, s)
    /\ state' = "matched"
    /\ UNCHANGED <<p, start, result, isDir, sub, env, qt>>

MatchInfo ==
    /\ state = "done"
    /\ result.glob.ok
    /\ \E name \in Names(p.in), dir \in BOOLEAN :
          /\ data' = name
          /\ isDir' = dir
          /\ matched' = GlobMatchInfo(result.glob, name, dir)
    /\ state' = "matchedInfo"
    /\ UNCHANGED <<p, start, result, sub, env, qt>>

MatchName ==
    /\ state = "done"
    /\ result.glob.ok
    /\ \E name \in Names(p.in), dir \in BOOLEAN :
          /\ data' = name
          /\ isDir' = dir
          /\ matched' = GlobMatchName(result.glob, name)
    /\ state' = "matchedName"
    /\ UNCHANGED <<p, start, result, sub, env, qt>>

Next ==
    \/ ParseMain
    \/ ParseClassEnter
    \/ ParseClassStep
    \/ CompileGlobReturn
    \/ Match
    \/ MatchInfo
    \/ MatchName

Spec == Init /\ [][Next]_vars

(***************************************************************************)
(* One Substitute call, an iteration of its loop at a time.                *)
(***************************************************************************)
InitSubst ==
    /\ p = NewParser(<<>>)
    /\ state = "idle"
    /\ start = 0
    /\ result = NoResult
    /\ data = <<>>
    /\ matched = FALSE
    /\ isDir = FALSE
    /\ qt = IdleQuote
    /\ \E s \in Inputs : sub = NewFrame(s)
    /\ env \in Envs

SubstStep ==
    /\ sub.pc = "loop"
    /\ sub.i < Len(sub.s)
    /\ sub' = substStep(sub, env)
    /\ UNCHANGED <<p, state, start, result, data, matched, isDir, env, qt>>

SubstReturn ==
    /\ \/ sub.pc = "loop" /\ sub.i >= Len(sub.s)
       \/ sub.pc = "break"
    /\ sub' = substReturn(sub)
    /\ UNCHANGED <<p, state, start, result, data, matched, isDir, env, qt>>

NextSubst == SubstStep \/ SubstReturn
SpecSubst == InitSubst /\ [][NextSubst]_vars

(***************************************************************************)
(* One Quote call, an argument at a time.                                  *)
(***************************************************************************)
InitQuote ==
    /\ p = NewParser(<<>>)
    /\ state = "idle"
    /\ start = 0
    /\ result = NoResult
    /\ data = <<>>
    /\ matched = FALSE
    /\ isDir = FALSE
    /\ sub = IdleFrame
    /\ env = IdleEnv
    /\ \E argv \in Argvs : qt = [IdleQuote EXCEPT !.argv = argv, !.pc = "loop"]

QuoteArg ==
    /\ qt.pc = "loop"
    /\ qt.k < Len(qt.argv)
    /\ qt' = [qt EXCEPT !.k = qt.k + 1,
                        !.first = FALSE,
                        !.b = qt.b \o quoteArg(qt.argv[qt.k + 1], qt.first)]
    /\ UNCHANGED <<p, state, start, result, data, matched, isDir, sub, env>>

QuoteReturn ==
    /\ qt.pc = "loop"
    /\ qt.k >= Len(qt.argv)
    /\ qt' = [qt EXCEPT !.pc = "returned"]
    /\ UNCHANGED <<p, state, start, result, data, matched, isDir, sub, env>>

NextQuote == QuoteArg \/ QuoteReturn
SpecQuote == InitQuote /\ [][NextQuote]_vars

(***************************************************************************)
(* Properties.                                                             *)
(***************************************************************************)
Runes(s) == {s[k] : k \in 1..Len(s)}
Compiled == state \in {"done", "matched"} /\ result.glob.ok

\* A match of re that starts at the first rune of s and ends at its last.
FullMatch(re, s) == Len(s) \in Ends(re, s, 0)

\* C1: for every accepted pattern the dialect text starts with "^(?s)" and
\* ends with "$", and Match(candidate) is true only when the expression
\* matches the entire candidate, never just a part of it.
C1_MatchIsWholeCandidate ==
    /\ Compiled =>
          /\ SubSeq(p.out, 1, Len(TextPrefix)) = TextPrefix
          /\ p.out[Len(p.out)] = Dollar
    /\ state = "matched" /\ matched => FullMatch(result.glob.re, data)

\* C2: in Main state the pattern "\X" compiles for every X, and matches
\* exactly the one-rune string X.
C2_EscapeStripsMeaning ==
    Len(p.in) = 2 /\ p.in[1] = Backslash /\ p.in[2] # eof =>
        /\ state \in {"done", "matched"} => result.glob.ok
        /\ state = "matched" => (matched <=> data = <<p.in[2]>>)

\* The pattern, read as the rule tables of the translator read it (a
\* backslash takes the next rune with it, '[' opens a class in Main state,
\* ']' closes it), leaves a class open at its end.
RECURSIVE ClassLeftOpen(_, _, _)
ClassLeftOpen(pattern, k, inClass) ==
    IF k > Len(pattern) THEN inClass
    ELSE IF pattern[k] = Backslash THEN ClassLeftOpen(pattern, k + 2, inClass)
    ELSE IF ~inClass /\ pattern[k] = LBracket THEN ClassLeftOpen(pattern, k + 1, TRUE)
    ELSE IF inClass /\ pattern[k] = RBracket THEN ClassLeftOpen(pattern, k + 1, FALSE)
    ELSE ClassLeftOpen(pattern, k + 1, inClass)

\* C3: a pattern whose '[' is never closed fails with a GlobError of
\* ErrUnterminatedClass that carries the pattern and, as Index, the byte
\* length of the pattern; the translator raises no other error.
C3_UnterminatedClassAtEnd ==
    /\ p.err # NoError => p.err.Err = ErrUnterminatedClass
    /\ state \in {"done", "matched"} /\ ClassLeftOpen(p.in, 1, FALSE) =>
          result.err = GlobError(p.in, ByteLen(p.in), ErrUnterminatedClass)

\* C4: when the engine rejects the emitted text, CompileGlob returns a
\* GlobError that wraps the engine's error, with the pattern and Index 0.
C4_EngineErrorWrapped ==
    state = "done" /\ p.err = NoError /\ Compile(p.out).err # "" =>
        result.err = GlobError(p.in, 0, Compile(p.out).err)

\* Runes that stand for themselves in Main state: every rune of Sigma but
\* the end marker and the ones the claims on literals leave out.
LiteralRunes ==
    Sigma \ {eof, Backslash, Bang, LBrace, RBrace, LBracket, RBracket,
             Question, Star}
IsLiteral(s) == Runes(s) \subseteq LiteralRunes
HasPrefix(s, pre) == Len(s) >= Len(pre) /\ SubSeq(s, 1, Len(pre)) = pre
Drop(s, n) == SubSeq(s, n + 1, Len(s))

\* Every '!' of the pattern after byte 0 is read in Main state: the pattern
\* has no backslash, no class and no end marker.
BangInMain(pattern) ==
    /\ Runes(pattern) \cap {Backslash, LBracket, eof} = {}
    /\ \E k \in 2..Len(pattern) : pattern[k] = Bang

NegatedIffLeadingBang ==
    Compiled => (result.glob.negated <=> (p.in # <<>> /\ p.in[1] = Bang))

\* C5 as claimed: the flag is true iff byte 0 is '!', and a '!' read in Main
\* state after byte 0 must appear in every candidate that matches.
C5_LaterBangInEveryMatch ==
    /\ NegatedIffLeadingBang
    /\ state = "matched" /\ matched /\ BangInMain(p.in) => Bang \in Runes(data)

\* A parseMain step that reads a '!' after byte 0.
ReadsLaterBang ==
    /\ state = "parseMain"
    /\ p.index > 0
    /\ DecodeRuneInString(p.in, p.index)[1] = Bang

\* C5, amended: the flag of a compiled glob is true iff byte 0 of the pattern
\* is '!' (so it is true for "!!"); a '!' read in Main state after byte 0
\* leaves the flag alone and is written to the dialect text as a literal '!';
\* it must appear in every matching candidate when the pattern has no brace.
C5_NegationFlag ==
    /\ []NegatedIffLeadingBang
    /\ [](state = "matched" /\ matched /\ BangInMain(p.in)
          /\ LBrace \notin Runes(p.in) => Bang \in Runes(data))
    /\ [][ReadsLaterBang =>
            /\ p'.neg = p.neg
            /\ p'.out = Append(p.out, Bang)
            /\ state' = "parseMain"]_vars

C5_Witness ==
    /\ state = "matched"
    /\ p.in = <<Bang, Bang>>
    /\ result.glob.negated
    /\ data = <<Bang>>
    /\ matched

PlainPattern(pattern) ==
    Runes(pattern) \cap {Star, Question, LBracket, RBracket, LBrace, RBrace,
                         Backslash, Bang} = {}
C7_PlainMatchesItself ==
    PlainPattern(p.in) =>
        /\ state \in {"done", "matched"} => result.glob.ok
        /\ state = "matched" => (matched <=> data = p.in)

\* C8 as claimed: "?" matches exactly the candidates one code point long.
C8_QuestionAnyOneRune ==
    state = "matched" /\ p.in = <<Question>> => (matched <=> Len(data) = 1)

\* C8, amended: "?" matches exactly the candidates that are one code point
\* other than '/'.
C8_QuestionOneRuneNotSlash ==
    state = "matched" /\ p.in = <<Question>> =>
        (matched <=> Len(data) = 1 /\ data[1] # Slash)

C8_Witness ==
    /\ state = "matched"
    /\ p.in = <<Question>>
    /\ data = <<233>>
    /\ matched

\* The pattern is a literal, "/" and "**".
LiteralSlashGlobstar(pattern) ==
    /\ Len(pattern) >= 3
    /\ Drop(pattern, Len(pattern) - 3) = <<Slash, Star, Star>>
    /\ IsLiteral(SubSeq(pattern, 1, Len(pattern) - 3))

StarAt(pattern) == CHOOSE k \in 1..Len(pattern) : pattern[k] = Star
LiteralStarLiteral(pattern) ==
    /\ Star \in Runes(pattern)
    /\ IsLiteral(SubSeq(pattern, 1, StarAt(pattern) - 1))
    /\ IsLiteral(Drop(pattern, StarAt(pattern)))

\* s is a, then runes none of which is '/', then b.
Between(s, a, b) ==
    /\ Len(s) >= Len(a) + Len(b)
    /\ HasPrefix(s, a)
    /\ Drop(s, Len(s) - Len(b)) = b
    /\ Slash \notin Runes(SubSeq(s, Len(a) + 1, Len(s) - Len(b)))

\* C10: for literal A and B the pattern A*B matches exactly the candidates
\* that are A, runes other than '/', and B; when B starts with '/', the
\* unit "*/" also matches nothing, so A*/B' matches A B' as well.
C10_StarStaysInComponent ==
    state = "matched" /\ LiteralStarLiteral(p.in) =>
        LET a == SubSeq(p.in, 1, StarAt(p.in) - 1)
            b == Drop(p.in, StarAt(p.in))
        IN  matched <=>
                \/ Between(data, a, b)
                \/ HasPrefix(b, <<Slash>>) /\ data = a \o Tail(b)

C10_Witness ==
    /\ state = "matched"
    /\ p.in = <<99, Slash, Star, Slash, 101>>
    /\ data = <<99, Slash, 101>>
    /\ matched

\* C11: MatchInfo(entry) is Match(name) for an entry that is no directory
\* and Match(name) or Match(name + "/") for a directory, so "*/" rejects the
\* file "c" and accepts the directory "c"; MatchName(entry) is Match(name)
\* whether or not the entry is a directory.
C11_MatchInfoTriesDirName ==
    /\ state = "matchedInfo" =>
          /\ ~isDir => (matched <=> GlobMatch(result.glob, data))
          /\ isDir =>
                (matched <=> \/ GlobMatch(result.glob, data)
                             \/ GlobMatch(result.glob, data \o <<Slash>>))
          /\ p.in = <<Star, Slash>> /\ data = <<100, 105, 114>> =>
                (matched <=> isDir)
    /\ state = "matchedName" => (matched <=> GlobMatch(result.glob, data))

C11_Witness ==
    /\ state = "matchedInfo"
    /\ p.in = <<Star, Slash>>
    /\ data = <<100, 105, 114>>
    /\ isDir
    /\ matched
    /\ ~GlobMatch(result.glob, data)

\* The pattern "[!B]" and the body B of its class.
IsNegatedClass(pattern) ==
    /\ Len(pattern) >= 4
    /\ pattern[1] = LBracket /\ pattern[2] = Bang
    /\ pattern[Len(pattern)] = RBracket
ClassBody(pattern) == SubSeq(pattern, 3, Len(pattern) - 1)

\* The Glob is one class between the two anchors.
SingleClass(g) ==
    /\ g.ok
    /\ g.re.op = "cat"
    /\ Len(g.re.subs) = 3
    /\ g.re.subs[2].op = "class"

\* C12: for a class body B that does not begin with '!' and whose "[B]"
\* compiles as a single class, "[!B]" matches a candidate of one code point
\* exactly when "[B]" does not; a '!' after the first position of a class is
\* a literal member of it.
C12_NegatedClassIsComplement ==
    /\ /\ state = "matched"
       /\ IsNegatedClass(p.in)
       /\ ClassBody(p.in)[1] # Bang
       /\ SingleClass(CompileGlob(<<LBracket>> \o ClassBody(p.in) \o <<RBracket>>).glob)
       /\ Len(data) = 1
       => LET plain == CompileGlob(<<LBracket>> \o ClassBody(p.in) \o <<RBracket>>).glob
          IN  matched <=> ~GlobMatch(plain, data)
    /\ state = "matched" /\ p.in = <<LBracket, 99, Bang, RBracket>> =>
          (matched <=> data \in {<<99>>, <<Bang>>})

\* C18: whenever the translator raises no unterminated-class error, the text
\* it emitted is accepted by the engine and CompileGlob returns a Glob.
C18_EmittedTextCompiles ==
    state = "done" /\ p.err = NoError => result.glob.ok /\ result.err = NoError

\* What a step of the parser appended to the dialect text.
Emitted == SubSeq(p'.out, Len(p.out) + 1, Len(p'.out))

\* A step of the parser, by the rune it reads, against the brace rules.
BraceStep ==
    /\ state = "parseMain" =>
          LET r == next(p.in, p.index).r
          IN  /\ r = LBrace =>
                    /\ p'.choiceNest = p.choiceNest + 1
                    /\ Emitted = <<LParen>>
              /\ r = Comma =>
                    /\ p'.choiceNest = p.choiceNest
                    /\ Emitted = IF p.choiceNest > 0 THEN <<Bar>> ELSE <<Comma>>
              /\ r = RBrace =>
                    IF p.choiceNest > 0
                    THEN p'.choiceNest = p.choiceNest - 1 /\ Emitted = <<RParen>>
                    ELSE p'.choiceNest = p.choiceNest /\ Emitted = <<RBrace>>
    /\ state \in {"parseClass", "parseClassLoop"} =>
          p'.choiceNest = p.choiceNest

\* C19: the nesting counter is never negative; in parseMain '{' opens a
\* group and increments it, ',' and '}' are a bar and a closer (which
\* decrements it) while it is above zero and literals when it is zero; the
\* class state leaves it alone; "{c,e,é}" matches exactly "c", "e" and "é".
C19_BraceNesting ==
    /\ [](p.choiceNest >= 0)
    /\ [][BraceStep]_vars
    /\ [](state = "matched"
          /\ p.in = <<LBrace, 99, Comma, 101, Comma, 233, RBrace>>
          => (matched <=> data \in {<<99>>, <<101>>, <<233>>}))

C19_Witness ==
    /\ state = "matched"
    /\ p.in = <<LBrace, 99, Comma, 101, Comma, 233, RBrace>>
    /\ p.choiceNest = 0
    /\ data = <<233>>
    /\ matched

\* C20: the cursor stays within the pattern, every step of parseMain and of
\* the loop of parseClass consumes a byte or stops the parse, peek leaves the
\* cursor where it was, and the parse stops only at the end of the pattern.
C20_SinglePassToTheEnd ==
    /\ 0 <= p.index /\ p.index <= ByteLen(p.in)
    /\ peek(p.in, p.index).index = p.index
    /\ state = "parseMain" =>
          LET s == parseMain(p) IN s.p.index > p.index \/ s.state = "nil"
    /\ state = "parseClassLoop" =>
          LET s == parseClassStep(p, start)
          IN  s.p.index > p.index \/ s.state = "nil"
    /\ state \notin {"parseMain", "parseClass", "parseClassLoop"} =>
          p.index = ByteLen(p.in)

\* The call of Substitute has ended, or has been handed to the engine.
SubstDone == sub.pc \in {"returned", "panic", "regexp"}

\* What the claim C13 makes of s from byte k: every complete "${name}" is
\* replaced by the value of name, and an undefined name is an error.
RECURSIVE ReplaceEvery(_, _, _)
ReplaceEvery(s, k, vals) ==
    IF k >= Len(s) THEN [undefined |-> FALSE, out |-> <<>>]
    ELSE IF HasPrefixRef(s, k)
    THEN LET d == IndexAny(s, k + 2, {RBrace})
         IN  IF d = -1
             THEN [undefined |-> FALSE, out |-> Slice(s, k, Len(s))]
             ELSE LET name == Slice(s, k + 2, k + 2 + d)
                      rest == ReplaceEvery(s, k + 2 + d + 1, vals)
                  IN  IF name \notin DOMAIN vals
                      THEN [undefined |-> TRUE, out |-> <<>>]
                      ELSE [undefined |-> rest.undefined,
                            out |-> vals[name] \o rest.out]
    ELSE LET rest == ReplaceEvery(s, k + 1, vals)
         IN  [undefined |-> rest.undefined, out |-> <<At(s, k)>> \o rest.out]

\* C13: with every substitution permitted, each complete "${name}" of s,
\* wherever it stands, is replaced by the value of name, and a name that is
\* not in the map makes Substitute return an "undefined variable" error.
C13_EveryReferenceReplaced ==
    /\ sub.pc = "returned"
    /\ ~env.can
    /\ Runes(sub.s) \cap {Colon, Slash} = {}
    => LET e == ReplaceEvery(sub.s, 0, env.vals)
       IN  IF e.undefined THEN sub.err.kind = "undefined variable"
           ELSE sub.err = NoErr /\ sub.out = e.out

\* s is one reference "${name:text}" and nothing else.
IsColonRef(s) ==
    /\ HasPrefixRef(s, 0)
    /\ s[Len(s)] = RBrace
    /\ LET d == IndexAny(s, 2, {Colon, Slash, RBrace})
       IN  /\ d # -1
           /\ At(s, 2 + d) = Colon
           /\ IndexAny(s, 2 + d + 1, {RBrace}) = Len(s) - 1 - (2 + d + 1)
RefName(s) == Slice(s, 2, 2 + IndexAny(s, 2, {Colon, Slash, RBrace}))
ColonText(s) == Slice(s, 2 + Len(RefName(s)) + 1, Len(s) - 1)

\* C14: "${name:-default}" is default for a name not in the map and the
\* value of name otherwise, "${name:+alternate}" is alternate for a name in
\* the map and empty otherwise, neither is an error; a text after ':' that is
\* empty or starts with another character is a "malformed variable
\* substitution" error.
C14_DefaultAndAlternate ==
    /\ SubstDone
    /\ IsColonRef(sub.s)
    /\ cansubst(env, RefName(sub.s))
    => LET t == ColonText(sub.s)
           got == Get(env.vals, RefName(sub.s))
       IN  /\ sub.pc = "returned"
           /\ IF t # <<>> /\ t[1] = Minus
              THEN /\ sub.err = NoErr
                   /\ sub.out = IF got.present THEN got.value ELSE Tail(t)
              ELSE IF t # <<>> /\ t[1] = Plus
              THEN /\ sub.err = NoErr
                   /\ sub.out = IF got.present THEN Tail(t) ELSE <<>>
              ELSE sub.err.kind = "malformed variable substitution"

\* C15: an input with a "${" and no '}' at all comes back as it is, without
\* an error; the text before an unterminated reference is expanded as usual.
C15_UnterminatedLeftAsIs ==
    /\ /\ SubstDone
       /\ RBrace \notin Runes(sub.s)
       /\ \E k \in 0..Len(sub.s) : HasPrefixRef(sub.s, k)
       => sub.pc = "returned" /\ sub.err = NoErr /\ sub.out = sub.s
    /\ /\ SubstDone
       /\ sub.s = <<36, 123, 97, 125, 32, 36, 123, 97>>
       /\ cansubst(env, <<97>>)
       => /\ sub.pc = "returned" /\ sub.err = NoErr
          /\ sub.out = env.vals[<<97>>] \o <<32, 36, 123, 97>>

\* s is one reference "${name...}" and nothing else.
IsOneRef(s) ==
    /\ HasPrefixRef(s, 0)
    /\ s[Len(s)] = RBrace
    /\ IndexAny(s, 2, {RBrace}) = Len(s) - 1 - 2

\* C16: a reference to a name for which the map's CanSubstitute is false is
\* copied to the result as it is; Get is not called for it and no error is
\* returned.
C16_DeniedLeftUntouched ==
    /\ SubstDone
    /\ env.can
    /\ IsOneRef(sub.s)
    /\ RefName(sub.s) \in env.deny
    => /\ sub.pc = "returned"
       /\ sub.err = NoErr
       /\ sub.out = sub.s
       /\ sub.gets = <<>>

\* The renderings of the claim C17, byte by byte.
NeedsQuoting(arg) == \E k \in 1..Len(arg) : needsQuote(k - 1, arg[k])
RECURSIVE Backslashed(_, _)
Backslashed(arg, k) ==
    IF k > Len(arg) THEN <<>>
    ELSE (IF needsQuote(k - 1, arg[k]) THEN <<Backslash>> ELSE <<>>)
         \o <<arg[k]>> \o Backslashed(arg, k + 1)
Rendered(arg) ==
    IF Apostrophe \in Runes(arg) THEN Backslashed(arg, 1)
    ELSE IF NeedsQuoting(arg) THEN <<Apostrophe>> \o arg \o <<Apostrophe>>
    ELSE arg
RECURSIVE JoinRendered(_, _)
JoinRendered(argv, k) ==
    IF k > Len(argv) THEN <<>>
    ELSE (IF k = 1 THEN <<>> ELSE <<Space>>)
         \o Rendered(argv[k]) \o JoinRendered(argv, k + 1)

\* C17: Quote returns the renderings of the arguments in order with one
\* space between two of them: the argument itself, in apostrophes when it
\* has a character that needs quoting, or, when it has an apostrophe, with a
\* backslash before every character that needs quoting.
C17_QuoteRendering ==
    qt.pc = "returned" => qt.b = JoinRendered(qt.argv, 1)

\* C21: Substitute reads nothing outside s: the bounds of its slices stay
\* within 0..len(s), the scan of the '/' form included (a slice beyond them
\* is the panic of the frame), the index i never decreases, and the call
\* ends with a string or an error, never a panic.
C21_NoReadOutsideInput ==
    /\ sub.pc # "panic"
    /\ 0 <= sub.start /\ sub.start <= Len(sub.s)
    /\ 0 <= sub.i
    /\ sub.pc = "loop" /\ sub.i < Len(sub.s) =>
          /\ substStep(sub, env).i >= sub.i
          /\ substStep(sub, env).start >= sub.start
          /\ HasPrefixRef(sub.s, sub.i) => sub.start <= sub.i

====
